---- MODULE Spec2Model ----
(***************************************************************************)
(* Model of Newshardbot.py: the run_once pipeline                          *)
(*   collect_new_links_all -> filter by already_posted -> reversed ->      *)
(*   fetch_article_meta -> date / window admission -> tg_send_* ->         *)
(*   mark_posted                                                           *)
(* with the sqlite table `posted` carried from run to run.                 *)
(*                                                                         *)
(* The table is modelled by its primary key column (url): title, tag and   *)
(* posted_at are written but never read by the program.  Time is an        *)
(* integer number of hours.  During a run an article page carries one      *)
(* publish time, unknown until a fetch of the article first returns it; a  *)
(* fetch failure and a Telegram failure are choices of the environment at  *)
(* each request.  The listing of one run holds at most MaxItems article    *)
(* links, so the safety ceiling ARTICLES_PER_PAGE_HINT * PAGES_TO_SCAN is  *)
(* never reached.  When the process exits its local variables are gone:    *)
(* they return to their initial values.                                    *)
(***************************************************************************)
EXTENDS Integers, Sequences, FiniteSets, TLC

\* ---------- bounds of the model ----------
MaxLinks == 2          \* <a href> elements on one listing page
MaxItems == 3          \* article links collected by one run
MaxRuns == 2           \* invocations of run_once
MaxPub == 1            \* latest publish time of an article, in hours

\* ---------- program settings ----------
MAX_POSTS_PER_RUN == 2
WINDOW_HOURS == 48
PAGES_TO_SCAN == 6
ARTICLES_PER_PAGE_HINT == 48

\* published_dt = None
NoDate == -1

\* the article has not been fetched successfully yet
Unknown == -2

\* publish times an article page can carry
Dates == {NoDate} \cup (0..MaxPub)

\* values of datetime.now(): the oldest article is at the window boundary,
\* then past it
Clock == {WINDOW_HOURS, WINDOW_HOURS + 1}

\* normalized article URLs
URLS == {"A", "B", "C"}

\* hrefs found on a listing page: <<path, query>>; "other" is a link whose
\* path is not /ru/news/<category>/<slug>/
HREFS == {<<"A", "">>, <<"A", "?utm">>, <<"B", "">>, <<"C", "">>, <<"other", "">>}

RawPages == UNION {[1..n -> HREFS] : n \in 0..MaxLinks}

VARIABLES
    store,               \* table posted: set of url keys
    pubTime,             \* the articles: url -> publish time, NoDate or Unknown
    now,                 \* now_utc of the current run
    runs,                \* number of invocations so far
    pc,                  \* "idle", "collect", "filter", "loop"
    exit,                \* "running", or how the last run ended
    page,                \* loop variable of collect_new_links_all
    all_items,           \* all_items / raw_candidates
    candidates,          \* candidates (not yet in the table)
    candidates_ordered,  \* list(reversed(candidates))
    idx,                 \* position of the for loop in candidates_ordered
    posted_count,        \* posted_count
    storeAtStart,        \* history: the table when the run started
    log,                 \* history: candidates examined in this run, with outcome
    published,           \* history: urls ever published successfully
    skippedBefore,       \* history: urls skipped (no fetch / no date) in earlier runs
    staleSeen,           \* history: urls ever rejected as older than the window
    leftover,            \* history: urls left unexamined by a cap stop, not rediscovered yet
    failedPage,          \* history: the listing page whose request failed, 0 if none
    refused              \* history: <<url, publish time>> of the send the API refused, or <<>>

vars == <<store, pubTime, now, runs, pc, exit, page, all_items, candidates,
          candidates_ordered, idx, posted_count, storeAtStart, log, published,
          skippedBefore, staleSeen, leftover, failedPage, refused>>

\* ---------- helpers ----------
Range(s) == {s[k] : k \in DOMAIN s}

Urls(lg) == {lg[k].url : k \in DOMAIN lg}

IsSent(e) == e.outcome = "sent"

SentSeq(lg) == SelectSeq(lg, IsSent)

\* ARTICLE_PATH_RE.match(href)
MatchesArticlePath(href) == href[1] \in URLS

\* normalize_url: drop query and fragment
normalize_url(href) == href[1]

\* "unique keep order" loop of parse_news_index_page
RECURSIVE UniqKeepOrder(_, _)
UniqKeepOrder(items, seen) ==
    IF items = <<>> THEN <<>>
    ELSE IF Head(items) \in seen
         THEN UniqKeepOrder(Tail(items), seen)
         ELSE <<Head(items)>> \o UniqKeepOrder(Tail(items), seen \cup {Head(items)})

RECURSIVE MatchingItems(_)
MatchingItems(raw) ==
    IF raw = <<>> THEN <<>>
    ELSE IF MatchesArticlePath(Head(raw))
         THEN <<normalize_url(Head(raw))>> \o MatchingItems(Tail(raw))
         ELSE MatchingItems(Tail(raw))

parse_news_index_page(raw) == UniqKeepOrder(MatchingItems(raw), {})

\* what parse_news_index_page can return: its result on every page content
ParsedPages == {parse_news_index_page(raw) : raw \in RawPages}

\* all_items.extend(items)
Extend(items_so_far, items) == items_so_far \o items

\* variant: the SELECT never finds a row
already_posted_never(url, st) == FALSE

\* SELECT 1 FROM posted WHERE url=?
already_posted(url, st) == url \in st

\* variant: the insert is lost
mark_posted_lost(st, url) == st

\* INSERT OR IGNORE INTO posted
mark_posted(st, url) == st \cup {url}

\* variant: the list is not reversed
Reversed_kept(s) == s

\* list(reversed(candidates))
RECURSIVE Reversed(_)
Reversed(s) == IF s = <<>> THEN <<>> ELSE Reversed(Tail(s)) \o <<Head(s)>>

\* variant: `>` instead of `>=`
CapReached_late(count) == count > MAX_POSTS_PER_RUN

\* posted_count >= MAX_POSTS_PER_RUN
CapReached(count) == count >= MAX_POSTS_PER_RUN

Cutoff(t) == t - WINDOW_HOURS

\* variant: `<=` instead of `<`
IsStale_inclusive(pub_dt, cutoff) == pub_dt <= cutoff

\* pub_dt < cutoff
IsStale(pub_dt, cutoff) == pub_dt < cutoff

Entry(u, o) == [url |-> u, outcome |-> o]

\* ---------- initial state ----------
NoArticleSeen == [u \in URLS |-> Unknown]

\* the local variables of run_once when no run is in progress
LocalsCleared ==
    /\ pc' = "idle"
    /\ page' = 1
    /\ all_items' = <<>>
    /\ candidates' = <<>>
    /\ candidates_ordered' = <<>>
    /\ idx' = 1
    /\ posted_count' = 0
    /\ pubTime' = NoArticleSeen
    /\ log' = <<>>

Init ==
    /\ store = {}
    /\ pubTime = NoArticleSeen
    /\ now = WINDOW_HOURS
    /\ runs = 0
    /\ pc = "idle"
    /\ exit = "none"
    /\ page = 1
    /\ all_items = <<>>
    /\ candidates = <<>>
    /\ candidates_ordered = <<>>
    /\ idx = 1
    /\ posted_count = 0
    /\ storeAtStart = {}
    /\ log = <<>>
    /\ published = {}
    /\ skippedBefore = {}
    /\ staleSeen = {}
    /\ leftover = {}
    /\ failedPage = 0
    /\ refused = <<>>

SkippedIn(lg) == {lg[k].url : k \in {j \in DOMAIN lg : lg[j].outcome \in {"fetch_fail", "no_date"}}}

\* ---------- run_once: start ----------
\* BOT_TOKEN or CHANNEL missing: SystemExit before any side effect
RunMissingConfig ==
    /\ pc = "idle"
    /\ runs < MaxRuns
    /\ runs' = runs + 1
    /\ exit' = "config_error"
    /\ storeAtStart' = store
    /\ failedPage' = 0
    /\ refused' = <<>>
    /\ UNCHANGED <<store, pubTime, now, pc, page, all_items, candidates,
                   candidates_ordered, idx, posted_count, log, published,
                   skippedBefore, staleSeen, leftover>>

\* init_db(); now_utc = datetime.now(); cutoff = now_utc - WINDOW_HOURS
StartRun ==
    /\ pc = "idle"
    /\ runs < MaxRuns
    /\ runs' = runs + 1
    /\ \E t \in Clock : t >= now /\ now' = t
    /\ pc' = "collect"
    /\ exit' = "running"
    /\ storeAtStart' = store
    /\ failedPage' = 0
    /\ refused' = <<>>
    /\ UNCHANGED <<store, pubTime, page, all_items, candidates, candidates_ordered,
                   idx, posted_count, log, published, skippedBefore, staleSeen,
                   leftover>>

\* ---------- collect_new_links_all ----------
\* one iteration of the page loop, the page was fetched
CollectPageOk ==
    /\ pc = "collect"
    /\ \E items \in ParsedPages :
         LET acc == Extend(all_items, items)
         IN /\ Len(acc) <= MaxItems
            /\ all_items' = acc
            /\ IF Len(acc) >= ARTICLES_PER_PAGE_HINT * PAGES_TO_SCAN \/ page = PAGES_TO_SCAN
               THEN pc' = "filter" /\ page' = page
               ELSE pc' = "collect" /\ page' = page + 1
    /\ UNCHANGED <<refused, store, pubTime, now, runs, exit, candidates, candidates_ordered,
                   idx, posted_count, storeAtStart, log, published, skippedBefore,
                   staleSeen, leftover, failedPage>>

\* variant: the failed page is dropped and the loop goes on
CollectPageFail_swallow ==
    /\ pc = "collect"
    /\ IF page = PAGES_TO_SCAN
       THEN pc' = "filter" /\ page' = page
       ELSE pc' = "collect" /\ page' = page + 1
    /\ failedPage' = page
    /\ UNCHANGED <<refused, store, pubTime, now, runs, exit, all_items, candidates,
                   candidates_ordered, idx, posted_count, storeAtStart, log,
                   published, skippedBefore, staleSeen, leftover>>

\* requests.get fails or r.raise_for_status() raises: nothing catches it in
\* parse_news_index_page, collect_new_links_all or run_once
CollectPageFail ==
    /\ pc = "collect"
    /\ LocalsCleared
    /\ exit' = "listing_error"
    /\ failedPage' = page
    /\ UNCHANGED <<refused, store, now, runs, storeAtStart, published, skippedBefore,
                   staleSeen, leftover>>

\* ---------- run_once: filter and reverse ----------
FilterCandidates ==
    /\ pc = "filter"
    /\ LET NotPosted(u) == ~already_posted(u, store)
           cands == SelectSeq(all_items, NotPosted)
       IN IF all_items = <<>>
          THEN /\ LocalsCleared
               /\ exit' = "no_candidates"
          ELSE IF cands = <<>>
          THEN /\ LocalsCleared
               /\ exit' = "nothing_new"
          ELSE /\ pc' = "loop"
               /\ exit' = exit
               /\ candidates' = cands
               /\ candidates_ordered' = Reversed(cands)
               /\ idx' = 1
               /\ posted_count' = 0
               /\ UNCHANGED <<page, all_items, pubTime, log>>
    /\ leftover' = leftover \ Range(all_items)
    /\ UNCHANGED <<refused, store, now, runs, storeAtStart, published, skippedBefore,
                   staleSeen, failedPage>>

\* ---------- run_once: the candidate loop ----------
InLoopBody ==
    /\ pc = "loop"
    /\ idx <= Len(candidates_ordered)
    /\ ~CapReached(posted_count)

CurUrl == candidates_ordered[idx]

\* variant: the candidates not examined are recorded as well
LoopExit_markRest ==
    /\ pc = "loop"
    /\ idx > Len(candidates_ordered) \/ CapReached(posted_count)
    /\ LocalsCleared
    /\ exit' = "completed"
    /\ store' = store \cup Range(candidates_ordered)
    /\ skippedBefore' = skippedBefore \cup SkippedIn(log)
    /\ leftover' = IF idx <= Len(candidates_ordered)
                   THEN leftover \cup (Range(candidates_ordered) \ Urls(log))
                   ELSE leftover
    /\ UNCHANGED <<refused, now, runs, storeAtStart, published, staleSeen, failedPage>>

\* the for loop is exhausted, or `if posted_count >= MAX_POSTS_PER_RUN: break`
LoopExit ==
    /\ pc = "loop"
    /\ idx > Len(candidates_ordered) \/ CapReached(posted_count)
    /\ LocalsCleared
    /\ exit' = "completed"
    /\ skippedBefore' = skippedBefore \cup SkippedIn(log)
    /\ leftover' = IF idx <= Len(candidates_ordered)
                   THEN leftover \cup (Range(candidates_ordered) \ Urls(log))
                   ELSE leftover
    /\ UNCHANGED <<refused, store, now, runs, storeAtStart, published, staleSeen, failedPage>>

\* fetch_article_meta raises: mark_posted(url, title_guess or url, tag); continue
FetchFail ==
    /\ InLoopBody
    /\ store' = mark_posted(store, CurUrl)
    /\ log' = Append(log, Entry(CurUrl, "fetch_fail"))
    /\ idx' = idx + 1
    /\ UNCHANGED <<refused, pubTime, now, runs, pc, exit, page, all_items, candidates,
                   candidates_ordered, posted_count, storeAtStart, published,
                   skippedBefore, staleSeen, leftover, failedPage>>

\* what a successful fetch_article_meta returns for published_dt
FetchedDates(u) == IF pubTime[u] = Unknown THEN Dates ELSE {pubTime[u]}

\* `if not pub_dt`: mark_posted; continue
NoDateSkip ==
    /\ InLoopBody
    /\ NoDate \in FetchedDates(CurUrl)
    /\ pubTime' = [pubTime EXCEPT ![CurUrl] = NoDate]
    /\ store' = mark_posted(store, CurUrl)
    /\ log' = Append(log, Entry(CurUrl, "no_date"))
    /\ idx' = idx + 1
    /\ UNCHANGED <<refused, now, runs, pc, exit, page, all_items, candidates,
                   candidates_ordered, posted_count, storeAtStart, published,
                   skippedBefore, staleSeen, leftover, failedPage>>

\* `if pub_dt < cutoff`: mark_posted; continue
StaleSkip ==
    /\ InLoopBody
    /\ \E dt \in FetchedDates(CurUrl) \ {NoDate} :
         /\ IsStale(dt, Cutoff(now))
         /\ pubTime' = [pubTime EXCEPT ![CurUrl] = dt]
    /\ store' = mark_posted(store, CurUrl)
    /\ log' = Append(log, Entry(CurUrl, "stale"))
    /\ staleSeen' = staleSeen \cup {CurUrl}
    /\ idx' = idx + 1
    /\ UNCHANGED <<refused, now, runs, pc, exit, page, all_items, candidates,
                   candidates_ordered, posted_count, storeAtStart, published,
                   skippedBefore, leftover, failedPage>>

\* the fetch returned dt and the candidate passed both checks
Admitted(dt) ==
    /\ InLoopBody
    /\ dt \in FetchedDates(CurUrl) \ {NoDate}
    /\ ~IsStale(dt, Cutoff(now))

\* format_caption_style2; tg_send_photo (img) or tg_send_message (no img)
\* returns; mark_posted; posted_count += 1
PublishOk ==
    /\ \E dt \in Dates, img \in BOOLEAN :
         /\ Admitted(dt)
         /\ pubTime' = [pubTime EXCEPT ![CurUrl] = dt]
    /\ log' = Append(log, Entry(CurUrl, "sent"))
    /\ published' = published \cup {CurUrl}
    /\ store' = mark_posted(store, CurUrl)
    /\ posted_count' = posted_count + 1
    /\ idx' = idx + 1
    /\ UNCHANGED <<refused, now, runs, pc, exit, page, all_items, candidates,
                   candidates_ordered, storeAtStart, skippedBefore, staleSeen,
                   leftover, failedPage>>

\* tg_api_post: `if not r.ok: raise SystemExit(...)`, caught by nothing
PublishFail ==
    /\ \E dt \in Dates, img \in BOOLEAN :
         /\ Admitted(dt)
         /\ refused' = <<CurUrl, dt>>
    /\ LocalsCleared
    /\ exit' = "telegram_error"
    /\ skippedBefore' = skippedBefore \cup SkippedIn(log)
    /\ UNCHANGED <<store, now, runs, storeAtStart, published, staleSeen,
                   leftover, failedPage>>

Next ==
    \/ RunMissingConfig
    \/ StartRun
    \/ CollectPageOk
    \/ CollectPageFail
    \/ FilterCandidates
    \/ LoopExit
    \/ FetchFail
    \/ NoDateSkip
    \/ StaleSkip
    \/ PublishOk
    \/ PublishFail

Spec == Init /\ [][Next]_vars

TypeOK ==
    /\ store \subseteq URLS
    /\ pc \in {"idle", "collect", "filter", "loop"}
    /\ posted_count \in 0..MAX_POSTS_PER_RUN
    /\ pc = "idle" => log = <<>> /\ all_items = <<>>

\* ======================= properties =======================
LastEntry(lg) == lg[Len(lg)]

Examined(lg1, lg2) == Len(lg2) = Len(lg1) + 1

SentUrls(lg) == [k \in 1..Len(SentSeq(lg)) |-> SentSeq(lg)[k].url]

Age(u) == now - pubTime[u]

\* the step is the publish attempt that the messaging API refuses
SendRefused == pc = "loop" /\ exit' = "telegram_error"

\* the step ends the candidate loop normally
LoopEnds == pc = "loop" /\ exit' = "completed"

\* C1: no normalized article URL is published successfully more than once,
\* neither twice in one run nor again in a later run.
C1_PublishedOnce ==
    [][(Examined(log, log') /\ LastEntry(log').outcome = "sent")
          => LastEntry(log').url \notin published]_vars

\* C2: a URL that is in the table when a run starts is never fetched,
\* formatted or sent by that run.
C2_IdempotentAdmission ==
    /\ Urls(log) \cap storeAtStart = {}
    /\ pc = "loop" => Range(candidates_ordered) \cap storeAtStart = {}

C2_Witness ==
    /\ pc = "loop"
    /\ log # <<>>
    /\ storeAtStart \cap Range(all_items) # {}

\* C3: a run publishes at most MAX_POSTS_PER_RUN articles, and once
\* posted_count has reached the cap the run fetches no further candidate.
C3_AtMostCap ==
    [][/\ Len(SentSeq(log')) <= MAX_POSTS_PER_RUN
       /\ (pc = "loop" /\ posted_count = MAX_POSTS_PER_RUN) => ~Examined(log, log')]_vars

C3_Witness ==
    /\ pc = "loop"
    /\ posted_count = MAX_POSTS_PER_RUN
    /\ Len(SentSeq(log)) = MAX_POSTS_PER_RUN
    /\ Len(log) < Len(candidates_ordered)

\* C4: a candidate fetched with a resolvable publish time is sent (its send is
\* attempted) iff now - published_at <= window; one older than the window is
\* recorded in the table and is never published, now or later.
C4_WindowCorrectness ==
    [][/\ \A k \in DOMAIN log' :
            (log'[k].outcome # "fetch_fail" /\ pubTime'[log'[k].url] \notin {NoDate, Unknown})
               => /\ log'[k].outcome = "sent" <=> now' - pubTime'[log'[k].url] <= WINDOW_HOURS
                  /\ now' - pubTime'[log'[k].url] > WINDOW_HOURS => log'[k].url \in store'
       /\ SendRefused => refused'[2] # NoDate /\ now - refused'[2] <= WINDOW_HOURS
       /\ staleSeen' \subseteq store'
       /\ staleSeen' \cap published' = {}]_vars

C4_Witness ==
    /\ \E k \in DOMAIN log : log[k].outcome = "stale"
    /\ \E k \in DOMAIN log :
         log[k].outcome = "sent" /\ Age(log[k].url) = WINDOW_HOURS

\* C5: candidates are examined in the reverse of their discovery order and the
\* published URLs are the first M eligible ones of the reversed list; with
\* discovery order [A, B, C], M = 2 and every examined candidate eligible, the
\* run publishes [C, B] and not A.
C5_Ordering ==
    [][/\ pc' = "loop"
            => /\ Len(log') <= Len(candidates')
               /\ \A k \in DOMAIN log' :
                    log'[k].url = candidates'[Len(candidates') - k + 1]
       /\ SendRefused => refused'[1] = candidates[Len(candidates) - Len(log)]
       /\ LoopEnds
            => \/ Len(log) = Len(candidates)
               \/ /\ Len(SentSeq(log)) = MAX_POSTS_PER_RUN
                  /\ LastEntry(log).outcome = "sent"
       /\ ( /\ LoopEnds
            /\ MAX_POSTS_PER_RUN = 2
            /\ candidates = <<"A", "B", "C">>
            /\ \A k \in DOMAIN log :
                  log[k].outcome \notin {"fetch_fail", "no_date", "stale"} )
            => /\ SentUrls(log) = <<"C", "B">>
               /\ "A" \notin published']_vars

C5_Witness ==
    /\ pc = "loop"
    /\ storeAtStart = {}
    /\ candidates = <<"A", "B", "C">>
    /\ SentUrls(log) = <<"C", "B">>
    /\ "A" \notin store

\* C6: when the fetch fails or yields no publish date, the URL is recorded in
\* the table without being published and the run goes on with the next
\* candidate; no later run fetches or publishes that URL.
C6_PermanentSkip ==
    [][/\ (Examined(log, log') /\ LastEntry(log').outcome \in {"fetch_fail", "no_date"})
            => /\ LastEntry(log').url \in store'
               /\ published' = published
               /\ pc' = "loop"
               /\ idx' = idx + 1
       /\ Urls(log') \cap skippedBefore' = {}]_vars

C6_Witness ==
    /\ pc = "loop"
    /\ log # <<>>
    /\ skippedBefore \cap Range(all_items) # {}

\* C7 (as stated): after a listing page fails to fetch, the run goes on to the
\* next page or to the filter.
C7_ListingFailureTolerated ==
    [][(failedPage = 0 /\ failedPage' # 0) => pc' \in {"collect", "filter"}]_vars

\* C7 (amended): a listing page that fails to fetch ends the run at once: the
\* links collected so far are dropped and the run filters, fetches, publishes
\* and records nothing.
C7_ListingFailureAborts ==
    failedPage # 0
      => /\ pc = "idle"
         /\ exit = "listing_error"
         /\ store = storeAtStart
         /\ all_items = <<>>
         /\ log = <<>>

C7_Witness ==
    /\ failedPage > 1
    /\ exit = "listing_error"
    /\ store # {}

\* C8: a non-success answer of the messaging API ends the run at once; the URL
\* whose publish failed is not in the table, the records written earlier in
\* the run are, and nothing else was written.
C8_SendFailureAborts ==
    [][SendRefused
          => /\ pc' = "idle"
             /\ store' = store
             /\ published' = published
             /\ refused'[1] \notin store'
             /\ store' = storeAtStart \cup Urls(log)]_vars

\* C9: the list returned by collect_new_links_all holds no normalized URL
\* twice, whichever pages list it.
C9_CollectedOnce ==
    pc \in {"filter", "loop"}
      => \A i, j \in DOMAIN all_items : i # j => all_items[i] # all_items[j]

\* C10: the candidates not yet examined when the cap stops the run are not
\* recorded in the table, and the next run that discovers one admits it again.
C10_CapLeavesRest ==
    [][/\ (LoopEnds /\ Len(log) < Len(candidates_ordered))
            => /\ (Range(candidates) \ Urls(log)) \cap store' = {}
               /\ (Range(candidates) \ Urls(log)) \subseteq leftover'
       /\ (pc = "filter" /\ pc' # "filter")
            => /\ pc' = "loop" \/ leftover \cap Range(all_items) = {}
               /\ pc' = "loop" => leftover \cap Range(all_items) \subseteq Range(candidates')
       /\ leftover' \cap store' = {}]_vars

C10_Witness ==
    /\ pc = "filter"
    /\ leftover \cap Range(all_items) # {}
====
